---------------------------- MODULE Spec2Model ----------------------------
(***************************************************************************)
(* A model of custom_rss_feed (src/main.py): the retrieval of the journal  *)
(* pages with its retry policy, the extraction of articles from the pages, *)
(* the normalisation of dates, and the aggregation into one feed.          *)
(*                                                                         *)
(* Python strings are sequences of one-character strings, an Optional[T]   *)
(* is <<>> (None) or <<x>>, a datetime is a record of its fields with      *)
(* tzinfo an optional UTC offset in minutes.                               *)
(***************************************************************************)
EXTENDS Integers, Sequences, FiniteSets, TLC

VARIABLES
    lists,       \* build_feed check: the per-source article lists given to main's extend
    items,       \* build_feed check: the items of the feed that build_feed produced
    feedBuilt,   \* build_feed check: build_feed has run
    dParts,      \* parse_date check: the pieces the input string is made of
    dValue,      \* parse_date check: the argument, None or a string
    dCleaned,    \* parse_date check: `cleaned` as it is parsed (after line 110)
    dOut,        \* parse_date check: the result of the call
    dDone,       \* parse_date check: parse_date has run
    pConfig,     \* parse_journal check: the source's JournalConfig
    pHtml,       \* parse_journal check: the page, as its cards
    pResult,     \* parse_journal check: the list returned
    pDone,       \* parse_journal check: parse_journal has run
    fState,      \* fetch_html check: "calling", "returned" or "raised"
    fAttempt,    \* fetch_html check: tenacity's attempt_number of the next attempt
    fLog,        \* fetch_html check: the outcome of every attempt made, in order
    fSlept,      \* fetch_html check: the waits between the attempts, in seconds
    fResult,     \* fetch_html check: what the call returned or raised
    pc,          \* main: "fetching", "done" or "aborted"
    idx,         \* main: the index in JOURNAL_CONFIGS of the source being fetched
    attempt,     \* main: the attempts the running fetch_html call has made
    mArticles,   \* main: the local list `articles`
    fetchLog,    \* main: the name of the source of every fetch_html call, in order
    parseLog,    \* main: the name of the source of every parse_journal call, in order
    lastOutcome, \* main: what the latest attempt of a fetch_html call met, None before any
    feedFile,    \* main: feed.xml, None until written
    writes,      \* main: how many times feed.xml was written
    error        \* main: the exception that ended the run, None if none did

feedVars == <<lists, items, feedBuilt>>
dateVars == <<dParts, dValue, dCleaned, dOut, dDone>>
parseVars == <<pConfig, pHtml, pResult, pDone>>
fetchVars == <<fState, fAttempt, fLog, fSlept, fResult>>
mainVars ==
    <<pc, idx, attempt, mArticles, fetchLog, parseLog, lastOutcome, feedFile, writes, error>>
vars == <<feedVars, dateVars, parseVars, fetchVars, mainVars>>

None == <<>>
Some(x) == <<x>>

\* The variables of a check that is not the one running keep these values.
FeedIdle == lists = <<>> /\ items = <<>> /\ feedBuilt = FALSE

DateIdle ==
    /\ dParts = <<>> /\ dValue = None /\ dCleaned = <<>>
    /\ dOut = None /\ dDone = FALSE

ParseIdle == pConfig = <<>> /\ pHtml = <<>> /\ pResult = <<>> /\ pDone = FALSE

FetchIdle ==
    /\ fState = "idle" /\ fAttempt = 0 /\ fLog = <<>> /\ fSlept = <<>>
    /\ fResult = None

MainIdle ==
    /\ pc = "idle" /\ idx = 0 /\ attempt = 0 /\ mArticles = <<>>
    /\ fetchLog = <<>> /\ parseLog = <<>> /\ lastOutcome = None
    /\ feedFile = None /\ writes = 0 /\ error = None

---------------------------------------------------------------------------
(* Python's str operations, on sequences of characters                     *)

Whitespace == {" ", "\t", "\n"}

RECURSIVE LStrip(_)
LStrip(s) ==
    IF s # <<>> /\ Head(s) \in Whitespace THEN LStrip(Tail(s)) ELSE s

RECURSIVE RStrip(_)
RStrip(s) ==
    IF s # <<>> /\ s[Len(s)] \in Whitespace
    THEN RStrip(SubSeq(s, 1, Len(s) - 1)) ELSE s

\* str.strip()
Strip(s) == RStrip(LStrip(s))

\* str.startswith(p)
StartsWith(s, p) == Len(s) >= Len(p) /\ SubSeq(s, 1, Len(p)) = p

\* sub in s
Contains(s, sub) ==
    \E i \in 1..(Len(s) - Len(sub) + 1) : SubSeq(s, i, i + Len(sub) - 1) = sub

---------------------------------------------------------------------------
(* datetime                                                                *)

DateTime(y, mo, d, h, mi, s, tz) ==
    [year |-> y, month |-> mo, day |-> d, hour |-> h, minute |-> mi,
     second |-> s, tzinfo |-> tz]

\* timezone.utc
UTC == 0

\* The days between 1970-01-01 and a date of the proleptic Gregorian calendar.
DaysFromCivil(y, m, d) ==
    LET yy == IF m <= 2 THEN y - 1 ELSE y
        era == yy \div 400
        yoe == yy - era * 400
        mp == IF m > 2 THEN m - 3 ELSE m + 9
        doy == (153 * mp + 2) \div 5 + d - 1
        doe == yoe * 365 + yoe \div 4 - yoe \div 100 + doy
    IN  era * 146097 + doe - 719468

\* The instant of an aware datetime, in seconds since 1970-01-01T00:00:00Z:
\* what the comparison of two aware datetimes compares.
Timestamp(dt) ==
    DaysFromCivil(dt.year, dt.month, dt.day) * 86400
      + dt.hour * 3600 + dt.minute * 60 + dt.second - dt.tzinfo[1] * 60

---------------------------------------------------------------------------
(* parse_date                                                              *)

Digits == {"0", "1", "2", "3", "4", "5", "6", "7", "8", "9"}

DigitValue(c) ==
    CASE c = "0" -> 0 [] c = "1" -> 1 [] c = "2" -> 2 [] c = "3" -> 3
      [] c = "4" -> 4 [] c = "5" -> 5 [] c = "6" -> 6 [] c = "7" -> 7
      [] c = "8" -> 8 [] c = "9" -> 9

IsDigits(s) == \A i \in 1..Len(s) : s[i] \in Digits

RECURSIVE Number(_)
Number(s) ==
    IF s = <<>> THEN 0
    ELSE 10 * Number(SubSeq(s, 1, Len(s) - 1)) + DigitValue(s[Len(s)])

\* str.lower()
LowerChar(c) ==
    CASE c = "A" -> "a" [] c = "B" -> "b" [] c = "C" -> "c" [] c = "D" -> "d"
      [] c = "E" -> "e" [] c = "F" -> "f" [] c = "G" -> "g" [] c = "H" -> "h"
      [] c = "I" -> "i" [] c = "J" -> "j" [] c = "K" -> "k" [] c = "L" -> "l"
      [] c = "M" -> "m" [] c = "N" -> "n" [] c = "O" -> "o" [] c = "P" -> "p"
      [] c = "Q" -> "q" [] c = "R" -> "r" [] c = "S" -> "s" [] c = "T" -> "t"
      [] c = "U" -> "u" [] c = "V" -> "v" [] c = "W" -> "w" [] c = "X" -> "x"
      [] c = "Y" -> "y" [] c = "Z" -> "z"
      [] OTHER -> c

Lower(s) == [i \in 1..Len(s) |-> LowerChar(s[i])]

\* The first index of character c in s, 0 when there is none.
RECURSIVE IndexOf(_, _)
IndexOf(s, c) ==
    IF s = <<>> THEN 0
    ELSE IF Head(s) = c THEN 1
    ELSE LET r == IndexOf(Tail(s), c) IN IF r = 0 THEN 0 ELSE r + 1

\* s.split(c, 1)[1]
AfterFirst(s, c) == SubSeq(s, IndexOf(s, c) + 1, Len(s))

\* s.replace(c, by), c a character
RECURSIVE Replace(_, _, _)
Replace(s, c, by) ==
    IF s = <<>> THEN <<>>
    ELSE (IF Head(s) = c THEN by ELSE <<Head(s)>>) \o Replace(Tail(s), c, by)

IsLeap(y) == (y % 4 = 0 /\ y % 100 # 0) \/ y % 400 = 0

DaysInMonth(y, m) ==
    IF m = 2 THEN (IF IsLeap(y) THEN 29 ELSE 28)
    ELSE IF m \in {4, 6, 9, 11} THEN 30 ELSE 31

\* The result of a call: a value, or the exception it raised.
Returned(v) == [ok |-> TRUE, value |-> v]
Raised(e) == [ok |-> FALSE, exc |-> e]
ValueError == Raised("ValueError")

\* datetime(year, month, day, hour, minute, second): ValueError out of range.
MakeDateTime(y, mo, d, h, mi, s, tz) ==
    IF /\ y >= 1 /\ mo \in 1..12
       /\ d >= 1 /\ d <= DaysInMonth(y, mo)
       /\ h \in 0..23 /\ mi \in 0..59 /\ s \in 0..59
    THEN Returned(DateTime(y, mo, d, h, mi, s, tz))
    ELSE ValueError

\* The UTC offset of "+HH:MM" or "-HH:MM", in minutes; <<>> when malformed.
ParseOffset(s) ==
    IF /\ Len(s) = 6 /\ s[1] \in {"+", "-"} /\ s[4] = ":"
       /\ IsDigits(SubSeq(s, 2, 3)) /\ IsDigits(SubSeq(s, 5, 6))
       /\ Number(SubSeq(s, 2, 3)) <= 23 /\ Number(SubSeq(s, 5, 6)) <= 59
    THEN LET m == Number(SubSeq(s, 2, 3)) * 60 + Number(SubSeq(s, 5, 6))
         IN  Some(IF s[1] = "-" THEN 0 - m ELSE m)
    ELSE <<>>

\* The index of the sign of the UTC offset in the time part, 0 without one.
SignIndex(s) == IF IndexOf(s, "+") # 0 THEN IndexOf(s, "+") ELSE IndexOf(s, "-")

\* HH[:MM[:SS]]: <<hour, minute, second>>, or <<>> when malformed.
ParseClock(clock) ==
    IF /\ Len(clock) \in {2, 5, 8}
       /\ \A i \in 1..Len(clock) :
             IF i \in {3, 6} THEN clock[i] = ":" ELSE clock[i] \in Digits
    THEN <<Number(SubSeq(clock, 1, 2)),
           IF Len(clock) >= 5 THEN Number(SubSeq(clock, 4, 5)) ELSE 0,
           IF Len(clock) >= 8 THEN Number(SubSeq(clock, 7, 8)) ELSE 0>>
    ELSE <<>>

\* The clock of a time part with its tzinfo (None: naive).
ClockWithTzinfo(clock, tzinfo) ==
    IF clock = <<>> THEN <<>> ELSE <<clock[1], clock[2], clock[3], tzinfo>>

\* The time part cut at the sign of its offset, signAt (0: no offset).
SplitIsoTime(s, signAt) ==
    IF signAt = 0 THEN ClockWithTzinfo(ParseClock(s), None)
    ELSE IF ParseOffset(SubSeq(s, signAt, Len(s))) = <<>> THEN <<>>
    ELSE ClockWithTzinfo(ParseClock(SubSeq(s, 1, signAt - 1)),
                         ParseOffset(SubSeq(s, signAt, Len(s))))

\* The time part of an ISO string, HH[:MM[:SS]] with an optional offset:
\* <<hour, minute, second, tzinfo>>, or <<>> when malformed.
ParseIsoTime(s) == SplitIsoTime(s, SignIndex(s))

\* The datetime of an ISO date with a parsed time part.
WithIsoTime(y, mo, d, t) ==
    IF t # <<>> THEN MakeDateTime(y, mo, d, t[1], t[2], t[3], t[4])
    ELSE ValueError

\* datetime.fromisoformat, for strings written YYYY-MM-DD, optionally followed
\* by a separator character and HH[:MM[:SS]][+HH:MM]; a string of another
\* shape raises ValueError.
fromisoformat(s) ==
    IF /\ Len(s) >= 10 /\ Len(s) # 11
       /\ IsDigits(SubSeq(s, 1, 4)) /\ s[5] = "-"
       /\ IsDigits(SubSeq(s, 6, 7)) /\ s[8] = "-"
       /\ IsDigits(SubSeq(s, 9, 10))
    THEN IF Len(s) = 10
         THEN MakeDateTime(Number(SubSeq(s, 1, 4)), Number(SubSeq(s, 6, 7)),
                           Number(SubSeq(s, 9, 10)), 0, 0, 0, None)
         ELSE WithIsoTime(Number(SubSeq(s, 1, 4)), Number(SubSeq(s, 6, 7)),
                          Number(SubSeq(s, 9, 10)),
                          ParseIsoTime(SubSeq(s, 12, Len(s))))
    ELSE ValueError

MonthNames ==
    <<<<"j", "a", "n", "u", "a", "r", "y">>, <<"f", "e", "b", "r", "u", "a", "r", "y">>, <<"m", "a", "r", "c", "h">>, <<"a", "p", "r", "i", "l">>, <<"m", "a", "y">>, <<"j", "u", "n", "e">>,
      <<"j", "u", "l", "y">>, <<"a", "u", "g", "u", "s", "t">>, <<"s", "e", "p", "t", "e", "m", "b", "e", "r">>, <<"o", "c", "t", "o", "b", "e", "r">>, <<"n", "o", "v", "e", "m", "b", "e", "r">>, <<"d", "e", "c", "e", "m", "b", "e", "r">>>>

\* strptime's %b: the first three letters of the name.
MonthAbbreviations == [m \in 1..12 |-> SubSeq(MonthNames[m], 1, 3)]

\* The longest run of digits that starts s, of at most n characters.
RECURSIVE TakeDigits(_, _)
TakeDigits(s, n) ==
    IF n = 0 \/ s = <<>> \/ Head(s) \notin Digits THEN <<>>
    ELSE <<Head(s)>> \o TakeDigits(Tail(s), n - 1)

\* The months whose name (from `names`) starts s, whatever the case.
MonthsAt(s, names) ==
    {m \in 1..12 : StartsWith(Lower(s), names[m])}

\* The name matched is the longest one ("may" is also how no other name starts).
MonthAt(s, names) ==
    CHOOSE m \in MonthsAt(s, names) :
        \A o \in MonthsAt(s, names) : Len(names[o]) <= Len(names[m])

\* The four fallback formats, as directives and literal characters; a space
\* in a format matches one or more whitespace characters.
Formats ==
    <<  <<"%B", " ", "%d", ",", " ", "%Y">>,
        <<"%d", " ", "%b", " ", "%Y">>,
        <<"%Y", "-", "%m", "-", "%d">>,
        <<"%Y", "-", "%m", "-", "%d", "T", "%H", ":", "%M", ":", "%S">>  >>

NumericDirectives == {"%Y", "%m", "%d", "%H", "%M", "%S"}

FieldOf(directive) ==
    CASE directive = "%Y" -> "year" [] directive = "%m" -> "month"
      [] directive = "%d" -> "day" [] directive = "%H" -> "hour"
      [] directive = "%M" -> "minute" [] directive = "%S" -> "second"

\* The digits a numeric directive takes, when they are in the directive's range.
DirectiveDigits(s, directive) ==
    LET ds == TakeDigits(s, IF directive = "%Y" THEN 4 ELSE 2)
        v == Number(ds)
        inRange ==
            CASE directive = "%Y" -> Len(ds) = 4
              [] directive = "%m" -> v \in 1..12
              [] directive = "%d" -> v \in 1..31
              [] directive = "%H" -> v \in 0..23
              [] directive = "%M" -> v \in 0..59
              [] directive = "%S" -> v \in 0..61
    IN  IF ds # <<>> /\ inRange THEN ds ELSE <<>>

\* s without its first n characters
Drop(s, n) == SubSeq(s, n + 1, Len(s))

\* The match of s against the rest of a format, from the fields found so far:
\* the fields, or <<>> when s does not match.
RECURSIVE MatchFormat(_, _, _)

\* A numeric directive f, which takes the digits ds.
MatchNumber(s, fmt, fields, f, ds) ==
    IF ds = <<>> THEN <<>>
    ELSE MatchFormat(Drop(s, Len(ds)), Tail(fmt),
                     [fields EXCEPT ![FieldOf(f)] = Number(ds)])

\* A month directive, which takes the name of month m.
MatchMonth(s, fmt, fields, names, m) ==
    MatchFormat(Drop(s, Len(names[m])), Tail(fmt), [fields EXCEPT !.month = m])

MatchFormat(s, fmt, fields) ==
    IF fmt = <<>> THEN (IF s = <<>> THEN Some(fields) ELSE <<>>)
    ELSE IF Head(fmt) \in NumericDirectives
         THEN MatchNumber(s, fmt, fields, Head(fmt), DirectiveDigits(s, Head(fmt)))
    ELSE IF Head(fmt) = "%B"
         THEN IF MonthsAt(s, MonthNames) = {} THEN <<>>
              ELSE MatchMonth(s, fmt, fields, MonthNames, MonthAt(s, MonthNames))
    ELSE IF Head(fmt) = "%b"
         THEN IF MonthsAt(s, MonthAbbreviations) = {} THEN <<>>
              ELSE MatchMonth(s, fmt, fields, MonthAbbreviations,
                              MonthAt(s, MonthAbbreviations))
    ELSE IF Head(fmt) = " "
         THEN IF s # <<>> /\ Head(s) \in Whitespace
              THEN MatchFormat(LStrip(s), Tail(fmt), fields)
              ELSE <<>>
    ELSE IF s # <<>> /\ Head(s) = Head(fmt)
         THEN MatchFormat(Tail(s), Tail(fmt), fields)
         ELSE <<>>

\* The naive datetime of the fields matched, ValueError without a match.
DateTimeOfMatch(m) ==
    IF m = <<>> THEN ValueError
    ELSE MakeDateTime(m[1].year, m[1].month, m[1].day,
                      m[1].hour, m[1].minute, m[1].second, None)

\* datetime.strptime(s, fmt): a naive datetime, or ValueError.
strptime(s, fmt) ==
    DateTimeOfMatch(MatchFormat(s, fmt,
        [year |-> 1900, month |-> 1, day |-> 1,
         hour |-> 0, minute |-> 0, second |-> 0]))

\* .replace(tzinfo=timezone.utc)
ReplaceTzinfoUTC(dt) == [dt EXCEPT !.tzinfo = Some(UTC)]

\* A parsed value returned as it is, naive or not.
KeepTzinfo(parsed) == parsed

\* parsed if parsed.tzinfo else parsed.replace(tzinfo=timezone.utc)
AssumeUTC(parsed) ==
    IF parsed.tzinfo # None THEN parsed ELSE ReplaceTzinfoUTC(parsed)

\* The loop over the fallback formats: the first that matches, else None.
RECURSIVE TryFormats(_, _)

\* One turn of the loop, r what strptime gave for the first format.
TryFormat(cleaned, formats, r) ==
    IF r.ok THEN Returned(Some(ReplaceTzinfoUTC(r.value)))
    ELSE IF r.exc = "ValueError" THEN TryFormats(cleaned, Tail(formats))
    ELSE r

TryFormats(cleaned, formats) ==
    IF formats = <<>> THEN Returned(None)
    ELSE TryFormat(cleaned, formats, strptime(cleaned, Head(formats)))

\* The condition under which parse_date drops the text before the first colon.
DropsLabel(cleaned) ==
    Contains(cleaned, <<":">>) /\ ~StartsWith(cleaned, <<"2", "0">>)

\* `cleaned` as parse_date parses it: stripped, and without its label.
CleanedDate(text) ==
    LET cleaned == Strip(text)
    IN  IF DropsLabel(cleaned) THEN Strip(AfterFirst(cleaned, ":")) ELSE cleaned

\* The try statement of parse_date, `parsed` what fromisoformat gave.
ParseCleaned(cleaned, parsed) ==
    IF parsed.ok THEN Returned(Some(AssumeUTC(parsed.value)))
    ELSE IF parsed.exc = "ValueError" THEN TryFormats(cleaned, Formats)
    ELSE parsed

\* iso_candidate = cleaned.replace("Z", "+00:00")
IsoCandidate(cleaned) == Replace(cleaned, "Z", <<"+", "0", "0", ":", "0", "0">>)

\* parse_date from line 111 on, `cleaned` as lines 107-110 leave it.
ParseDateCleaned(cleaned) == ParseCleaned(cleaned, fromisoformat(IsoCandidate(cleaned)))

\* parse_date: the call's result, Returned(None) or Returned(<<datetime>>).
parse_date(value) ==
    IF value = None \/ value[1] = <<>> THEN Returned(None)
    ELSE ParseDateCleaned(CleanedDate(value[1]))

---------------------------------------------------------------------------
(* Article, and the aggregation of build_feed                              *)

Article(title, link, summary, published, source) ==
    [title |-> title, link |-> link, summary |-> summary,
     published |-> published, source |-> source]

\* ensure_timezone: the epoch for an absent date, UTC for a naive datetime.
ensure_timezone(value) ==
    LET fallback == DateTime(1970, 1, 1, 0, 0, 0, Some(UTC))
    IN  IF value = None THEN fallback
        ELSE IF value[1].tzinfo # None THEN value[1]
        ELSE [value[1] EXCEPT !.tzinfo = Some(UTC)]

\* key=lambda entry: ensure_timezone(entry.published)
SortKey(entry) == Timestamp(ensure_timezone(entry.published))

\* A sort that is not stable: `a` goes before the elements of equal key.
InsertDescendingUnstable(sorted, a) ==
    LET n == Cardinality({i \in 1..Len(sorted) : SortKey(sorted[i]) > SortKey(a)})
    IN  SubSeq(sorted, 1, n) \o <<a>> \o SubSeq(sorted, n + 1, Len(sorted))

\* One insertion of a stable descending sort: `a`, which came later in the
\* input, goes after every element whose key is not smaller.
InsertDescending(sorted, a) ==
    LET n == Cardinality({i \in 1..Len(sorted) : SortKey(sorted[i]) >= SortKey(a)})
    IN  SubSeq(sorted, 1, n) \o <<a>> \o SubSeq(sorted, n + 1, Len(sorted))

\* build_feed without its sort: the articles in the order given.
UnsortedArticles(articles) == articles

\* sorted(articles, key=..., reverse=True): stable, equal keys keep input order.
RECURSIVE SortedArticles(_)
SortedArticles(articles) ==
    IF articles = <<>> THEN <<>>
    ELSE InsertDescending(SortedArticles(SubSeq(articles, 1, Len(articles) - 1)),
                          articles[Len(articles)])

\* Item(title=f"{source}: {title}", link, description, guid, pubDate)
Item(article) ==
    [title |-> <<article.source, article.title>>,
     link |-> article.link,
     description |-> article.summary,
     guid |-> [guid |-> article.link, isPermaLink |-> TRUE],
     pubDate |-> article.published]

\* The loop without the membership test: every article is emitted.
SkipNothing(article, unique_links) == FALSE

\* if article.link in unique_links: continue
SkipArticle(article, unique_links) == article.link \in unique_links

\* The loop of build_feed over sorted_articles, from the state (unique_links, items).
RECURSIVE FeedLoop(_, _, _)
FeedLoop(sorted_articles, unique_links, acc) ==
    IF sorted_articles = <<>> THEN acc
    ELSE LET article == Head(sorted_articles)
         IN  IF SkipArticle(article, unique_links)
             THEN FeedLoop(Tail(sorted_articles), unique_links, acc)
             ELSE FeedLoop(Tail(sorted_articles),
                           unique_links \cup {article.link},
                           Append(acc, Item(article)))

\* The items of the Feed that build_feed serialises.
FeedItems(articles) == FeedLoop(SortedArticles(articles), {}, <<>>)

\* build_feed: the feed document, as the channel link and the items in order.
build_feed(articles, channel_link) ==
    [title |-> "Custom Biological Research Feed",
     link |-> channel_link,
     items |-> FeedItems(articles)]

\* articles.extend(...) over the sources in order: the concatenation.
RECURSIVE Concat(_)
Concat(ls) == IF ls = <<>> THEN <<>> ELSE Head(ls) \o Concat(Tail(ls))

---------------------------------------------------------------------------
(* The sources                                                             *)

JournalConfig(name, url, base_url, include_terms, exclude_terms) ==
    [name |-> name, url |-> url, base_url |-> base_url,
     include_terms |-> include_terms, exclude_terms |-> exclude_terms]

JOURNAL_CONFIGS ==
    <<JournalConfig("Cell",
          <<"h", "t", "t", "p", "s", ":", "/", "/", "w", "w", "w", ".", "c", "e", "l", "l", ".", "c", "o", "m", "/", "c", "e", "l", "l", "/", "n", "e", "w", "a", "r", "t", "i", "c", "l", "e", "s">>,
          <<"h", "t", "t", "p", "s", ":", "/", "/", "w", "w", "w", ".", "c", "e", "l", "l", ".", "c", "o", "m">>,
          <<<<"r", "e", "s", "e", "a", "r", "c", "h", " ", "a", "r", "t", "i", "c", "l", "e">>, <<"a", "r", "t", "i", "c", "l", "e">>>>,
          <<<<"n", "e", "w", "s">>, <<"e", "d", "i", "t", "o", "r", "i", "a", "l">>, <<"b", "r", "i", "e", "f", "i", "n", "g">>, <<"a", "h", "e", "a", "d", " ", "o", "f", " ", "p", "r", "i", "n", "t">>,
            <<"p", "e", "r", "s", "p", "e", "c", "t", "i", "v", "e">>, <<"p", "r", "e", "-", "p", "r", "o", "o", "f">>>>),
      JournalConfig("Nature",
          <<"h", "t", "t", "p", "s", ":", "/", "/", "w", "w", "w", ".", "n", "a", "t", "u", "r", "e", ".", "c", "o", "m", "/", "n", "a", "t", "u", "r", "e", "/", "r", "e", "s", "e", "a", "r", "c", "h", "-", "a", "r", "t", "i", "c", "l", "e", "s">>,
          <<"h", "t", "t", "p", "s", ":", "/", "/", "w", "w", "w", ".", "n", "a", "t", "u", "r", "e", ".", "c", "o", "m">>,
          <<<<"r", "e", "s", "e", "a", "r", "c", "h", " ", "a", "r", "t", "i", "c", "l", "e">>, <<"r", "e", "s", "e", "a", "r", "c", "h">>>>,
          <<<<"n", "e", "w", "s", " ", "&", " ", "v", "i", "e", "w", "s">>>>),
      JournalConfig("Science",
          <<"h", "t", "t", "p", "s", ":", "/", "/", "w", "w", "w", ".", "s", "c", "i", "e", "n", "c", "e", ".", "o", "r", "g", "/", "j", "o", "u", "r", "n", "a", "l", "/", "s", "c", "i", "e", "n", "c", "e", "/", "r", "e", "s", "e", "a", "r", "c", "h">>,
          <<"h", "t", "t", "p", "s", ":", "/", "/", "w", "w", "w", ".", "s", "c", "i", "e", "n", "c", "e", ".", "o", "r", "g">>,
          <<<<"r", "e", "s", "e", "a", "r", "c", "h", " ", "a", "r", "t", "i", "c", "l", "e">>, <<"r", "e", "s", "e", "a", "r", "c", "h">>>>,
          <<<<"p", "e", "r", "s", "p", "e", "c", "t", "i", "v", "e">>, <<"b", "o", "o", "k", "s">>, <<"p", "o", "l", "i", "c", "y", " ", "f", "o", "r", "u", "m">>, <<"l", "e", "t", "t", "e", "r">>, <<"n", "e", "w", "s">>>>)>>

SourceNames == [i \in 1..Len(JOURNAL_CONFIGS) |-> JOURNAL_CONFIGS[i].name]

DEFAULT_FEED_LINK == <<"h", "t", "t", "p", "s", ":", "/", "/", "g", "i", "t", "h", "u", "b", ".", "c", "o", "m", "/", "q", "b", "i", "o", "/", "m", "a", "h", "o", "o", "n", "2">>

---------------------------------------------------------------------------
(* The extraction of articles from a page. A page is given as the cards    *)
(* the parser's selectors find in it; a card as the elements the selectors *)
(* find in the card, each None or a tag; a tag as its text nodes and the   *)
(* attributes the parsers read.                                            *)

Tag(strings, href, datetime) ==
    [strings |-> strings, href |-> href, datetime |-> datetime]

Card(title_tag, alt_title_tag, summary_tag, time_tag) ==
    [title_tag |-> title_tag, alt_title_tag |-> alt_title_tag,
     summary_tag |-> summary_tag, time_tag |-> time_tag]

\* " ".join of the stripped, non-empty strings: get_text(" ", strip=True)
RECURSIVE JoinStripped(_)
JoinStripped(strings) ==
    IF strings = <<>> THEN <<>>
    ELSE LET first == Strip(Head(strings))
             rest == JoinStripped(Tail(strings))
         IN  IF first = <<>> THEN rest
             ELSE IF rest = <<>> THEN first
             ELSE first \o <<" ">> \o rest

\* text_or_empty
text_or_empty(tag) == IF tag # None THEN JoinStripped(tag[1].strings) ELSE <<>>

\* tag.get("href", "")
HrefOrEmpty(tag) == IF tag.href # None THEN tag.href[1] ELSE <<>>

HasScheme(url) == StartsWith(url, <<"h", "t", "t", "p", "s", ":", "/", "/">>) \/ StartsWith(url, <<"h", "t", "t", "p", ":", "/", "/">>)

\* scheme://netloc of an absolute URL
Origin(url) ==
    LET afterScheme == IndexOf(url, "/") + 1
        rest == SubSeq(url, afterScheme + 1, Len(url))
        slash == IndexOf(rest, "/")
    IN  IF slash = 0 THEN url ELSE SubSeq(url, 1, afterScheme + slash - 1)

\* urljoin(base, url) for a base without a path, and url empty, absolute,
\* rooted ("/a") or relative ("a").
urljoin(base, url) ==
    IF url = <<>> THEN base
    ELSE IF HasScheme(url) THEN url
    ELSE IF Head(url) = "/" THEN Origin(base) \o url
    ELSE Origin(base) \o <<"/">> \o url

\* The string parse_nature and parse_science give to parse_date: the datetime
\* attribute when the element has a non-empty one, else the element's text.
DateOfTimeTag(time_tag) ==
    IF time_tag # None /\ time_tag[1].datetime # None /\ time_tag[1].datetime[1] # <<>>
    THEN time_tag[1].datetime
    ELSE Some(text_or_empty(time_tag))

\* The string parse_cell gives to parse_date: the text of the date element.
DateOfDateTag(date_tag) == Some(text_or_empty(date_tag))

\* The article of one card, given its title element and its date string.
ArticleOfCard(card, title_tag, date, config) ==
    Article(text_or_empty(title_tag),
            urljoin(config.base_url, HrefOrEmpty(title_tag[1])),
            text_or_empty(card.summary_tag),
            parse_date(date).value,
            config.name)

\* choose_title: the first of the two title selectors that finds an element.
choose_title(container) ==
    IF container.title_tag # None THEN container.title_tag
    ELSE container.alt_title_tag

\* The title element a source's parser selects in a card.
TitleTagOf(name, card) ==
    IF name = "Science" THEN choose_title(card) ELSE card.title_tag

\* The date string a source's parser reads in a card.
DateOf(name, card) ==
    IF name = "Cell" THEN DateOfDateTag(card.time_tag)
    ELSE DateOfTimeTag(card.time_tag)

\* The loop of parse_cell, parse_nature and parse_science over the cards of
\* the page: a card without a title element is skipped.
RECURSIVE ParseCards(_, _, _)
ParseCards(name, html, config) ==
    IF html = <<>> THEN <<>>
    ELSE (IF TitleTagOf(name, Head(html)) = None THEN <<>>
          ELSE <<ArticleOfCard(Head(html), TitleTagOf(name, Head(html)),
                               DateOf(name, Head(html)), config)>>)
         \o ParseCards(name, Tail(html), config)

\* PARSER_MAP
PARSER_MAP == {"Cell", "Nature", "Science"}

\* if article.title and article.link
IsValidArticle(article) == article.title # <<>> /\ article.link # <<>>

\* parse_journal: the candidates of the source's parser that have a title
\* and a link.
parse_journal(html, config) ==
    IF config.name \notin PARSER_MAP THEN <<>>
    ELSE SelectSeq(ParseCards(config.name, html, config), IsValidArticle)

---------------------------------------------------------------------------
(* fetch_html and its retry policy                                         *)

\* requests.exceptions.HTTPError, as raise_for_status raises it
HTTPError(status_code) ==
    [class |-> "HTTPError", response |-> Some([status_code |-> status_code]),
     last_attempt |-> None]

\* An exception of requests.get that is not an HTTPError
TransportError(class) == [class |-> class, response |-> None, last_attempt |-> None]

\* tenacity.RetryError, raised when the attempts are used up
RetryError(exception) ==
    [class |-> "RetryError", response |-> None, last_attempt |-> Some(exception)]

\* What requests.get does in one attempt: a response, or an exception.
Response(status_code, text) ==
    [raises |-> None, status_code |-> status_code, text |-> text]

GetRaises(class) == [raises |-> Some(class), status_code |-> 0, text |-> <<>>]

\* A predicate that retries on every HTTPError.
RetryAnyHTTPError(exception) == exception.class = "HTTPError"

\* is_transient_error
is_transient_error(exception) ==
    /\ exception.class = "HTTPError"
    /\ exception.response # None
    /\ exception.response[1].status_code \in {403, 503}

\* The body of fetch_html, one attempt: requests.get, raise_for_status (an
\* HTTPError for a status of 400 or more), return response.text.
fetch_html_body(got) ==
    IF got.raises # None THEN Raised(TransportError(got.raises[1]))
    ELSE IF got.status_code >= 400 THEN Raised(HTTPError(got.status_code))
    ELSE Returned(got.text)

\* stop_after_attempt(5)
STOP_AFTER_ATTEMPT == 5

\* wait_exponential(multiplier=1, min=1, max=10)
WAIT_MULTIPLIER == 1
WAIT_MIN == 1
WAIT_MAX == 10

Min(a, b) == IF a <= b THEN a ELSE b
Max(a, b) == IF a >= b THEN a ELSE b

wait_exponential(attempt_number) ==
    Max(Max(0, WAIT_MIN), Min(WAIT_MULTIPLIER * 2 ^ (attempt_number - 1), WAIT_MAX))

\* What the retry decorator does with an attempt that raised `exception`:
\* re-raise it when the predicate rejects it, raise RetryError when the
\* attempts are used up, else sleep and call again.
RetryDecision(attempt_number, exception) ==
    IF ~is_transient_error(exception) THEN "reraise"
    ELSE IF attempt_number >= STOP_AFTER_ATTEMPT THEN "retry_error"
    ELSE "sleep"

\* The exception a failed fetch_html call surfaces.
Surfaced(attempt_number, exception) ==
    IF RetryDecision(attempt_number, exception) = "retry_error"
    THEN RetryError(exception) ELSE exception

---------------------------------------------------------------------------
(* One call of fetch_html, attempt by attempt                              *)

\* Pages a source may serve: an empty page, a card with a title and a link
\* of its own, a card that shares its link across sources, two cards.
SamplePageCards ==
    <<Card(Some(Tag(<<<<"G", "e", "n", "e", " ", "e", "d", "i", "t", "i", "n", "g">>>>, Some(<<"/", "a">>), None)), None, None,
           Some(Tag(<<<<"3", " ", "M", "a", "r", " ", "2", "0", "2", "4">>>>, None, Some(<<"2", "0", "2", "4", "-", "0", "3", "-", "0", "3">>)))),
      Card(Some(Tag(<<<<"S", "h", "a", "r", "e", "d", " ", "r", "e", "p", "o", "r", "t">>>>, Some(<<"h", "t", "t", "p", "s", ":", "/", "/", "x", "/", "1">>), None)), None, None,
           None)>>

SamplePages ==
    {<<>>, <<SamplePageCards[1]>>, <<SamplePageCards[2]>>}

SampleStatuses == {403, 404, 500, 503}

SampleTransportErrors == {"Timeout", "ConnectionError"}

\* What one attempt may meet.
SampleOutcomes ==
    {Response(200, page) : page \in SamplePages}
      \cup {Response(status, <<>>) : status \in SampleStatuses}
      \cup {GetRaises(class) : class \in SampleTransportErrors}

FetchInit ==
    /\ FeedIdle /\ DateIdle /\ ParseIdle /\ MainIdle
    /\ fState = "calling" /\ fAttempt = 1 /\ fLog = <<>> /\ fSlept = <<>>
    /\ fResult = None

\* One attempt of the call, with what the decorator does after it.
FetchAttempt(got) ==
    /\ fState = "calling"
    /\ fLog' = Append(fLog, got)
    /\ LET r == fetch_html_body(got)
       IN  IF r.ok
           THEN /\ fState' = "returned"
                /\ fResult' = Some(r)
                /\ UNCHANGED <<fAttempt, fSlept>>
           ELSE IF RetryDecision(fAttempt, r.exc) = "sleep"
           THEN /\ fSlept' = Append(fSlept, wait_exponential(fAttempt))
                /\ fAttempt' = fAttempt + 1
                /\ UNCHANGED <<fState, fResult>>
           ELSE /\ fState' = "raised"
                /\ fResult' = Some(Raised(Surfaced(fAttempt, r.exc)))
                /\ UNCHANGED <<fAttempt, fSlept>>
    /\ UNCHANGED <<feedVars, dateVars, parseVars, mainVars>>

FetchNext == \E got \in SampleOutcomes : FetchAttempt(got)

SpecFetch == FetchInit /\ [][FetchNext]_vars

---------------------------------------------------------------------------
(* main                                                                    *)

\* get_feed_link: the environment's FEED_LINK, else the default.
get_feed_link(env) == IF env # None THEN env[1] ELSE DEFAULT_FEED_LINK

SampleEnv == {None, Some(<<"h", "t", "t", "p", "s", ":", "/", "/", "e", "x", "a", "m", "p", "l", "e", ".", "o", "r", "g", "/", "f", "e", "e", "d">>)}

\* The loop over JOURNAL_CONFIGS ends after a source that is not the last.
EndsAfterFirstSource(i) == i >= 1

\* The loop over JOURNAL_CONFIGS has no source left after the i-th.
LastSource(i) == i = Len(JOURNAL_CONFIGS)

Init ==
    /\ FeedIdle /\ DateIdle /\ ParseIdle /\ FetchIdle
    /\ pc = "fetching" /\ idx = 1 /\ attempt = 0 /\ mArticles = <<>>
    /\ fetchLog = <<>> /\ parseLog = <<>> /\ lastOutcome = None
    /\ feedFile = None /\ writes = 0 /\ error = None

\* What main does with the page of a source: `articles` are extended; after
\* the last source the feed is built and feed.xml written.
Proceed(extended, env) ==
    /\ mArticles' = extended
    /\ IF LastSource(idx)
       THEN /\ feedFile' = Some(build_feed(extended, get_feed_link(env)))
            /\ writes' = writes + 1
            /\ pc' = "done"
            /\ attempt' = attempt + 1
            /\ UNCHANGED idx
       ELSE /\ idx' = idx + 1
            /\ attempt' = 0
            /\ UNCHANGED <<pc, feedFile, writes>>

\* An attempt of the running fetch_html call returns the page: main parses
\* it, extends `articles`, and goes on to the next source; after the last
\* source it builds the feed and writes feed.xml.
AttemptReturns(got, env) ==
    /\ pc = "fetching"
    /\ fetch_html_body(got).ok
    /\ fetchLog' = IF attempt = 0 THEN Append(fetchLog, JOURNAL_CONFIGS[idx].name)
                   ELSE fetchLog
    /\ parseLog' = Append(parseLog, JOURNAL_CONFIGS[idx].name)
    /\ lastOutcome' = Some(got)
    /\ Proceed(mArticles \o parse_journal(fetch_html_body(got).value,
                                           JOURNAL_CONFIGS[idx]), env)
    /\ UNCHANGED <<error, feedVars, dateVars, parseVars, fetchVars>>

\* An attempt fails with a transient error and attempts are left: the
\* decorator sleeps and calls again.
AttemptRetried(got) ==
    /\ pc = "fetching"
    /\ ~fetch_html_body(got).ok
    /\ RetryDecision(attempt + 1, fetch_html_body(got).exc) = "sleep"
    /\ fetchLog' = IF attempt = 0 THEN Append(fetchLog, JOURNAL_CONFIGS[idx].name)
                   ELSE fetchLog
    /\ lastOutcome' = Some(got)
    /\ attempt' = attempt + 1
    /\ UNCHANGED <<pc, idx, mArticles, parseLog, feedFile, writes, error>>
    /\ UNCHANGED <<feedVars, dateVars, parseVars, fetchVars>>

\* An attempt fails for good: fetch_html raises, main does not catch, the
\* run ends and its locals are gone.
AttemptRaises(got) ==
    /\ pc = "fetching"
    /\ ~fetch_html_body(got).ok
    /\ RetryDecision(attempt + 1, fetch_html_body(got).exc) # "sleep"
    /\ fetchLog' = IF attempt = 0 THEN Append(fetchLog, JOURNAL_CONFIGS[idx].name)
                   ELSE fetchLog
    /\ lastOutcome' = Some(got)
    /\ error' = Some(Surfaced(attempt + 1, fetch_html_body(got).exc))
    /\ pc' = "aborted"
    /\ mArticles' = <<>>
    /\ attempt' = attempt + 1
    /\ UNCHANGED <<idx, parseLog, feedFile, writes>>
    /\ UNCHANGED <<feedVars, dateVars, parseVars, fetchVars>>

Next ==
    \E got \in SampleOutcomes :
        \/ \E env \in SampleEnv : AttemptReturns(got, env)
        \/ AttemptRetried(got)
        \/ AttemptRaises(got)

Spec == Init /\ [][Next]_vars

---------------------------------------------------------------------------
(* parse_date on bounded inputs: a string is made of optional leading      *)
(* whitespace, an optional label, a body, an optional zone and optional    *)
(* trailing whitespace.                                                    *)

SampleLeads == {<<>>, <<" ">>}

SampleLabels == {<<>>, <<"P", "u", "b", "l", "i", "s", "h", "e", "d", ":", " ">>, <<"D", "a", "t", "e", ":">>}

\* Bodies written as an ISO date and time, which fromisoformat parses.
IsoTimedBodies == {<<"2", "0", "2", "4", "-", "0", "3", "-", "0", "3", "T", "1", "0", ":", "0", "0", ":", "0", "0">>, <<"1", "9", "9", "9", "-", "0", "1", "-", "0", "1", "T", "1", "0", ":", "0", "0", ":", "0", "0">>, <<"2", "0", "2", "4", "-", "0", "3", "-", "0", "3", " ", "1", "0", ":", "0", "0">>}

\* Bodies that are a date in one of the supported formats.
DateBodies ==
    {<<"M", "a", "r", "c", "h", " ", "3", ",", " ", "2", "0", "2", "4">>, <<"m", "a", "r", "c", "h", " ", " ", "3", ",", " ", "2", "0", "2", "4">>, <<"3", " ", "M", "a", "r", " ", "2", "0", "2", "4">>, <<"2", "0", "2", "4", "-", "0", "3", "-", "0", "3">>,
     <<"1", "9", "9", "9", "-", "0", "1", "-", "0", "1">>, <<"2", "0", "2", "4", "-", "3", "-", "3">>, <<"2", "0", "2", "4", "-", "3", "-", "3", "T", "1", ":", "2", ":", "3">>}

\* Bodies that match neither ISO-8601 nor a fallback format.
UnparseableBodies == {<<>>, <<"n", "o", "t", " ", "a", " ", "d", "a", "t", "e">>, <<"2", "0", "2", "4", "-", "0", "2", "-", "3", "0">>, <<"F", "e", "b", "r", "u", "a", "r", "y", " ", "3", "0", ",", " ", "2", "0", "2", "4">>}

SampleBodies == IsoTimedBodies \cup DateBodies \cup UnparseableBodies

SampleZones == {<<>>, <<"Z">>, <<"+", "0", "9", ":", "0", "0">>, <<"-", "0", "5", ":", "0", "0">>}

SampleTrails == {<<>>, <<"\n">>}

DateParts ==
    [lead : SampleLeads, label : SampleLabels, body : SampleBodies,
     zone : SampleZones, trail : SampleTrails]

Compose(parts) ==
    parts.lead \o parts.label \o parts.body \o parts.zone \o parts.trail

DateInit ==
    /\ FeedIdle /\ ParseIdle /\ FetchIdle /\ MainIdle
    /\ \E parts \in DateParts :
          /\ dParts = parts
          /\ \/ dValue = Some(Compose(parts))
             \/ Compose(parts) = <<>> /\ dValue = None
    /\ dCleaned = <<>> /\ dOut = None /\ dDone = FALSE

ParseDate ==
    /\ ~dDone
    /\ dOut' = parse_date(dValue)
    /\ dCleaned' = IF dValue = None THEN <<>> ELSE CleanedDate(dValue[1])
    /\ dDone' = TRUE
    /\ UNCHANGED <<dParts, dValue, feedVars, parseVars, fetchVars, mainVars>>

DateNext == ParseDate

SpecDate == DateInit /\ [][DateNext]_vars

---------------------------------------------------------------------------
(* parse_journal on bounded inputs                                         *)

\* The most cards in a page.
MaxCards == 2

\* The text nodes of a title element: none, whitespace, and two titles.
SampleTitleStrings ==
    {<<>>, <<<<" ", " ">>>>, <<<<"N", "e", "w", "s", " ", "r", "o", "u", "n", "d", "u", "p">>>>, <<<<" ", "G", "e", "n", "e", " ", "e", "d", "i", "t", "i", "n", "g">>, <<"r", "e", "s", "e", "a", "r", "c", "h", " ">>>>}

\* No href attribute, a rooted path, an absolute URL.
SampleHrefs == {None, Some(<<"/", "a">>), Some(<<"h", "t", "t", "p", "s", ":", "/", "/", "x", "/", "1">>)}

SampleTitleTags ==
    {None} \cup {Some(Tag(t, h, None)) : t \in SampleTitleStrings, h \in SampleHrefs}

SampleAltTitleTags == {None, Some(Tag(<<<<"P", "e", "r", "s", "p", "e", "c", "t", "i", "v", "e">>>>, Some(<<"/", "b">>), None))}

\* No date element, one with its date as labelled text, one with a datetime
\* attribute.
SampleTimeTags ==
    {None,
     Some(Tag(<<<<"P", "u", "b", "l", "i", "s", "h", "e", "d", ":", " ", "M", "a", "r", "c", "h", " ", "3", ",", " ", "2", "0", "2", "4">>>>, None, None)),
     Some(Tag(<<<<"3", " ", "M", "a", "r", " ", "2", "0", "2", "4">>>>, None, Some(<<"2", "0", "2", "4", "-", "0", "3", "-", "0", "2", "T", "1", "0", ":", "0", "0", ":", "0", "0", "Z">>)))}

SampleSummaryTags == {None, Some(Tag(<<<<"A", " ", "s", "u", "m", "m", "a", "r", "y", ".">>>>, None, None))}

SampleCards ==
    {Card(t, a, s, d) :
        t \in SampleTitleTags, a \in SampleAltTitleTags,
        s \in SampleSummaryTags, d \in SampleTimeTags}

ParseInit ==
    /\ FeedIdle /\ DateIdle /\ FetchIdle /\ MainIdle
    /\ \E i \in 1..Len(JOURNAL_CONFIGS) : pConfig = JOURNAL_CONFIGS[i]
    /\ \E n \in 0..MaxCards : \E html \in [1..n -> SampleCards] : pHtml = html
    /\ pResult = <<>> /\ pDone = FALSE

ParseJournal ==
    /\ ~pDone
    /\ pResult' = parse_journal(pHtml, pConfig)
    /\ pDone' = TRUE
    /\ UNCHANGED <<pConfig, pHtml, feedVars, dateVars, fetchVars, mainVars>>

ParseNext == ParseJournal

SpecParse == ParseInit /\ [][ParseNext]_vars

---------------------------------------------------------------------------
(* build_feed on bounded inputs                                            *)

\* The most articles, over all sources, in one input of build_feed.
MaxArticles == 3

SampleLinks == {<<"h", "t", "t", "p", "s", ":", "/", "/", "x", "/", "1">>, <<"h", "t", "t", "p", "s", ":", "/", "/", "x", "/", "2">>}

\* Absent, before the epoch, the epoch itself, and a recent date.
SamplePublished ==
    {None,
     Some(DateTime(1969, 12, 31, 0, 0, 0, Some(UTC))),
     Some(DateTime(1970, 1, 1, 0, 0, 0, Some(UTC))),
     Some(DateTime(2024, 3, 3, 0, 0, 0, Some(UTC)))}

SampleData == SampleLinks \X SamplePublished

\* The k-th article of a source carries k as its title: two instances of the
\* input are told apart by (source, title).
MakeList(flat, from, to, source) ==
    [k \in 1..(to - from) |->
        Article(k, flat[from + k][1], <<>>, flat[from + k][2], source)]

FeedInit ==
  /\ DateIdle /\ ParseIdle /\ FetchIdle /\ MainIdle
  /\ \E n \in 0..MaxArticles :
      \E flat \in [1..n -> SampleData] :
        \E i \in 0..n :
          \E j \in i..n :
            /\ lists = <<MakeList(flat, 0, i, SourceNames[1]),
                         MakeList(flat, i, j, SourceNames[2]),
                         MakeList(flat, j, n, SourceNames[3])>>
            /\ items = <<>>
            /\ feedBuilt = FALSE

BuildFeed ==
    /\ ~feedBuilt
    /\ items' = build_feed(Concat(lists), DEFAULT_FEED_LINK).items
    /\ feedBuilt' = TRUE
    /\ UNCHANGED <<lists, dateVars, parseVars, fetchVars, mainVars>>

FeedNext == BuildFeed

SpecFeed == FeedInit /\ [][FeedNext]_vars

---------------------------------------------------------------------------
(* Claims about parse_journal                                              *)

\* The lowercase text projection of a candidate: of the classification
\* fields, a card of these pages has its headline, the title.
Projection(article) == Lower(article.title)

\* The classification rule: an include term (if the source has any) and no
\* exclude term is a substring of the projection.
Accepted(config, projection) ==
    /\ \/ config.include_terms = <<>>
       \/ \E i \in 1..Len(config.include_terms) :
             Contains(projection, config.include_terms[i])
    /\ \A i \in 1..Len(config.exclude_terms) :
          ~Contains(projection, config.exclude_terms[i])

\* C4: every Article parse_journal returns is accepted by the classification
\* rule of its source; none has a projection with an exclude term.
C4_OnlyAcceptedReturned ==
    pDone => \A k \in 1..Len(pResult) : Accepted(pConfig, Projection(pResult[k]))

\* The title element of a card, as the source's parser selects it.
TitleElement(card, config) == TitleTagOf(config.name, card)

\* A card with a title element, a title that is not empty after trimming,
\* and an href on the title element to resolve the link from.
Qualified(card, config) ==
    /\ TitleElement(card, config) # None
    /\ text_or_empty(TitleElement(card, config)) # <<>>
    /\ TitleElement(card, config)[1].href # None

\* C5: parse_journal yields an Article for a card only if the card has a
\* title that is not empty after trimming and a link could be resolved for
\* it; every other card is discarded, the rest of the page unaffected.
C5_OnlyTitledAndLinked ==
    pDone =>
        /\ Len(pResult)
             = Cardinality({i \in 1..Len(pHtml) : Qualified(pHtml[i], pConfig)})
        /\ \A k \in 1..Len(pResult) : pResult[k].title # <<>>

---------------------------------------------------------------------------
(* Claims about build_feed                                                 *)

AllArticles == Concat(lists)

LinksOf(articles) == {articles[i].link : i \in 1..Len(articles)}

\* C1: the items build_feed emits have pairwise distinct links, whatever
\* duplicates the input holds.
C1_DistinctLinks ==
    feedBuilt =>
        \A i, j \in 1..Len(items) : i # j => items[i].link # items[j].link

\* An input with a duplicated link and a second link has been aggregated.
C1_Witness ==
    /\ feedBuilt
    /\ \E i, j \in 1..Len(AllArticles) :
          i < j /\ AllArticles[i].link = AllArticles[j].link
    /\ Len(items) = 2

\* C2: adjacent items with both dates present are in non-increasing order of
\* published, and every item with an absent date comes after all items with
\* a present date, for any present date.
C2_RecencyOrderAbsentLast ==
    feedBuilt =>
        /\ \A i \in 1..(Len(items) - 1) :
              (items[i].pubDate # None /\ items[i + 1].pubDate # None)
                => Timestamp(items[i].pubDate[1]) >= Timestamp(items[i + 1].pubDate[1])
        /\ \A i, j \in 1..Len(items) :
              (i < j /\ items[i].pubDate = None) => items[j].pubDate = None

\* The first instance of a link in the concatenation of the source lists.
FirstEncountered(link) ==
    CHOOSE i \in 1..Len(AllArticles) :
        /\ AllArticles[i].link = link
        /\ \A j \in 1..(i - 1) : AllArticles[j].link # link

\* The earliest instance among those of a link whose sort key is greatest.
FirstOfNewest(link) ==
    CHOOSE i \in 1..Len(AllArticles) :
        /\ AllArticles[i].link = link
        /\ \A j \in 1..Len(AllArticles) :
              AllArticles[j].link = link
                => /\ SortKey(AllArticles[j]) <= SortKey(AllArticles[i])
                   /\ (SortKey(AllArticles[j]) = SortKey(AllArticles[i]) => i <= j)

OnePerLink ==
    /\ LinksOf(items) = LinksOf(AllArticles)
    /\ Len(items) = Cardinality(LinksOf(AllArticles))

\* C3 as stated: of the articles sharing a link, the instance first in the
\* concatenation is the one retained, regardless of the published dates.
C3_FirstEncounteredRetained ==
    feedBuilt =>
        /\ OnePerLink
        /\ \A k \in 1..Len(items) :
              items[k] = Item(AllArticles[FirstEncountered(items[k].link)])

\* C3 as amended: of the articles sharing a link, the instance retained is
\* the one with the greatest sort key (published, the epoch when absent),
\* and among those of equal key the first in the concatenation; every other
\* instance of the link is dropped.
C3_NewestRetained ==
    feedBuilt =>
        /\ OnePerLink
        /\ \A k \in 1..Len(items) :
              items[k] = Item(AllArticles[FirstOfNewest(items[k].link)])

\* A link whose later instance is the newer one, and two instances of a link
\* with equal keys, have been aggregated.
C3_Witness ==
    /\ feedBuilt
    /\ \E i, j \in 1..Len(AllArticles) :
          /\ i < j
          /\ AllArticles[i].link = AllArticles[j].link
          /\ SortKey(AllArticles[i]) < SortKey(AllArticles[j])
          /\ items[1] = Item(AllArticles[j])

Permuted(p) == <<lists[p[1]], lists[p[2]], lists[p[3]]>>

OrderIndependent ==
    \A p \in Permutations(1..3) : FeedItems(Concat(Permuted(p))) = items

\* No two articles of different sources have the same sort key.
NoCrossSourceTies ==
    \A i, j \in 1..Len(AllArticles) :
        AllArticles[i].source # AllArticles[j].source
          => SortKey(AllArticles[i]) # SortKey(AllArticles[j])

\* C9 as stated: the items are the same for every permutation of the source
\* lists, also with equal or absent dates and shared links across sources.
C9_OrderIndependent == feedBuilt => OrderIndependent

\* C9 as amended: the items are the same for every permutation of the source
\* lists provided no two articles of different sources have the same sort key
\* (published, the epoch when absent).
C9_OrderIndependentWithoutTies ==
    (feedBuilt /\ NoCrossSourceTies) => OrderIndependent

\* Three sources with one article each, of distinct keys, given out of order
\* of recency, two of them sharing a link.
C9_Witness ==
    /\ feedBuilt
    /\ NoCrossSourceTies
    /\ \A s \in 1..3 : Len(lists[s]) = 1
    /\ SortKey(lists[1][1]) < SortKey(lists[3][1])
    /\ lists[1][1].link = lists[2][1].link
    /\ Len(items) = 2

---------------------------------------------------------------------------
(* Claims about parse_date                                                 *)

StartsWithFourDigitYear(s) == Len(s) >= 4 /\ IsDigits(SubSeq(s, 1, 4))

\* C6: parse_date discards the text before the first colon exactly when the
\* stripped string contains a colon and does not start with a 4-digit year;
\* a string that starts with a 4-digit year is parsed as a whole.
C6_LabelDroppedUnlessYear ==
    (dDone /\ dValue # None) =>
        LET stripped == Strip(dValue[1])
        IN  (dCleaned # stripped)
              <=> (Contains(stripped, <<":">>) /\ ~StartsWithFourDigitYear(stripped))

\* The offset a zone suffix states, in minutes.
ZoneOffset(zone) ==
    CASE zone = <<"Z">> -> 0
      [] zone = <<"+", "0", "9", ":", "0", "0">> -> 540
      [] zone = <<"-", "0", "5", ":", "0", "0">> -> 0 - 300

\* C7: parse_date never raises; an absent or empty input and a string that
\* matches no format yield None; every other result is timezone-aware, with
\* the explicit offset of the parsed value when it has one and UTC otherwise.
C7_TotalAndAware ==
    dDone =>
        /\ dOut.ok
        /\ (dValue = None \/ dValue[1] = <<>>) => dOut.value = None
        /\ dParts.body \in UnparseableBodies => dOut.value = None
        /\ dOut.value # None =>
              dOut.value[1].tzinfo =
                  IF dParts.body \in IsoTimedBodies /\ dParts.zone # <<>>
                  THEN Some(ZoneOffset(dParts.zone))
                  ELSE Some(UTC)

\* A labelled date and time with an explicit offset has been parsed, and the
\* offset kept.
C7_Witness ==
    /\ dDone
    /\ dParts.label # <<>>
    /\ dOut.ok /\ dOut.value # None
    /\ dOut.value[1].tzinfo = Some(540)

---------------------------------------------------------------------------
(* Claims about fetch_html and main                                        *)

\* The attempt met an HTTP error of status 403 or 503.
Failed403or503(got) == got.raises = None /\ got.status_code \in {403, 503}

\* The attempt got its page.
Succeeded(got) == got.raises = None /\ got.status_code < 400

\* C8: fetch_html makes another attempt when, and only when, the attempt
\* failed with an HTTP error of status 403 or 503 and fewer than 5 attempts
\* have been made; any other failure is surfaced at once, as it is; a
\* successful attempt returns at once; no call makes more than 5 attempts.
C8_RetryOnly403or503 ==
    fState # "idle" =>
        /\ Len(fLog) <= 5
        /\ \A i \in 1..(Len(fLog) - 1) : Failed403or503(fLog[i])
        /\ fState = "calling" =>
              /\ fAttempt = Len(fLog) + 1 /\ fAttempt <= 5
              /\ \A i \in 1..Len(fLog) : Failed403or503(fLog[i])
        /\ fState = "returned" =>
              /\ Succeeded(fLog[Len(fLog)])
              /\ fResult[1].ok /\ fResult[1].value = fLog[Len(fLog)].text
        /\ fState = "raised" =>
              /\ ~Succeeded(fLog[Len(fLog)])
              /\ ~fResult[1].ok
              /\ IF Failed403or503(fLog[Len(fLog)])
                 THEN Len(fLog) = 5 /\ fResult[1].exc.class = "RetryError"
                 ELSE fResult[1].exc.class \in {"HTTPError"} \cup SampleTransportErrors
              /\ fResult[1].exc.class = "HTTPError" =>
                    fResult[1].exc.response[1].status_code
                        = fLog[Len(fLog)].status_code
        /\ (fLog # <<>> /\ Failed403or503(fLog[Len(fLog)]) /\ Len(fLog) < 5)
              => fState = "calling"

\* A call that was retried after a 403 and after a 503 and returned on its
\* fifth attempt.
C8_Witness ==
    /\ fState = "returned"
    /\ Len(fLog) = 5
    /\ \E i, j \in 1..4 : fLog[i].status_code = 403 /\ fLog[j].status_code = 503

\* The state of a run of main is consistent with the claim.
C10_State ==
    /\ Len(fetchLog) <= Len(SourceNames)
    /\ \A i \in 1..Len(fetchLog) : fetchLog[i] = SourceNames[i]
    /\ \A i \in 1..Len(parseLog) : parseLog[i] = fetchLog[i]
    /\ Len(fetchLog) - Len(parseLog) \in {0, 1}
    /\ writes <= 1
    /\ (feedFile # None) = (writes = 1)
    /\ feedFile # None => (parseLog = SourceNames /\ error = None /\ pc = "done")
    /\ (lastOutcome # None /\ ~Succeeded(lastOutcome[1])
          /\ (~Failed403or503(lastOutcome[1]) \/ attempt = 5))
         <=> pc = "aborted"
    /\ pc = "aborted" =>
          /\ error # None
          /\ feedFile = None /\ writes = 0
          /\ mArticles = <<>>
          /\ Len(parseLog) < Len(SourceNames)

\* C10: main fetches and parses the sources one at a time in registry order
\* and writes feed.xml at most once, only after every source was fetched and
\* parsed; when the fetch of a source ends in failure the run aborts: no
\* later source is fetched, no feed is written, the articles collected are
\* discarded.
C10_SequentialAllOrNothing ==
    /\ [](pc # "idle" => C10_State)
    /\ [][(pc \in {"aborted", "done"}) => UNCHANGED mainVars]_vars

\* A run that aborted on its third source, after the first two were parsed
\* and had yielded articles.
C10_Witness ==
    /\ pc = "aborted"
    /\ Len(parseLog) = 2
    /\ fetchLog = SourceNames
    /\ attempt = 5

\* A run that wrote feed.xml, with articles of more than one source.
C10_Written ==
    /\ pc = "done"
    /\ feedFile # None
    /\ Len(feedFile[1].items) >= 2

=============================================================================
